---- MODULE Spec2Model ----
(***************************************************************************)
(* TubeGrab: the job queue, the job runner, the job record store, the rate *)
(* limiter, the janitor and the download path of the two server variants   *)
(* (src/server.js, called "server", and src/unnamed/part_000, called       *)
(* "part000").  Names follow server.js; where part_000 names the same      *)
(* thing differently (downloadQueue, processingCount, processDownload) the *)
(* comment at the definition says so.                                      *)
(*                                                                         *)
(* Time is counted in whole minutes: every threshold of the code that the  *)
(* model uses is a whole number of minutes.  The code stores instants      *)
(* (timestamp: Date.now(), a file's mtimeMs, resetTime) and only ever      *)
(* compares them with Date.now(); the model stores the same instants       *)
(* relative to the clock: a record's and a file's age (now - timestamp,    *)
(* now - mtimeMs) and an entry's time to live (resetTime - now).  Tick is  *)
(* a minute passing.  The sweeps keep every such number small, so the      *)
(* clock itself needs no bound.                                            *)
(*                                                                         *)
(* Job ids are the numbers 1, 2, ... in the order generateId() hands them  *)
(* out; two calls never return the same id and no id is part of another.   *)
(***************************************************************************)
EXTENDS Integers, Sequences, FiniteSets

\* ------------------------------------------------------------------ bounds
\* Jobs the burst specification admits.
MaxJobs == 4
\* Jobs the timed queue specification admits.
MaxQueueJobs == 3
\* Jobs the life-cycle specification admits.
MaxLifeJobs == 1
\* Jobs the artifact specification admits.
MaxArtifactJobs == 2
\* Jobs the rate specification admits.
MaxRateJobs == 1
\* Jobs the saturation specification admits (ceiling + slots + 1).
MaxSatJobs == 23
\* Requests one client sends inside one window in the job specifications.
MaxWindowReqs == 5
\* Client addresses.
NumClients == 5
\* Progress streams open at a time.
MaxStreams == 1
\* Jobs the progress specification admits.
MaxProgressJobs == 3
\* Read streams and grace timers the job of the life-cycle specification has
\* at a time.
MaxLifeDl == 2
\* Read streams and grace timers one job has at a time.
MaxDl == 1
\* Jobs of the timeout specification: two take the slots, one waits.
MaxHungJobs == 3
\* Jobs of the marker specification.
MaxMarkerJobs == 2

\* ------------------------------------------------------- program constants
MAX_CONCURRENT == 2
QUEUE_CEILING == 20
\* 60000 ms
RATE_WINDOW == 1
\* 180000 ms
FILE_MAX_AGE == 3
\* 300000 ms
RECORD_MAX_AGE == 5
\* 120000 ms
CLEANUP_INTERVAL == 2
\* 60000 ms, part_000's own purge interval
PURGE_INTERVAL == 1
\* 600000 ms, the timeout option of server.js's exec
EXEC_TIMEOUT == 10

Variants == {"server", "part000"}
JobIds == 1..(MaxSatJobs + 1)
Clients == 1..NumClients
Formats == {"mp3", "mp4"}
\* Extensions of the files the external tool leaves in the download
\* directory: the requested one, an altered one, a partial download.
Exts == {"mp3", "mp4", "webm", "part"}

NoRec == [status |-> "none"]
NoEntry == [count |-> 0, ttl |-> 0]
NoPath == [id |-> 0, ext |-> "none"]
\* No timeout is pending for a process: the value of the field left.
NoTimeout == 0 - 1
NoRunner == [pc |-> "none", proc |-> "none", finalPath |-> NoPath,
             left |-> NoTimeout]

VARIABLES
    variant,           \* which server file runs
    downloadProgress,  \* Map id -> job record
    requestCounts,     \* Map ip -> {count, ttl: resetTime - now}
    queue,             \* pending job ids, head first
    job,               \* the job objects: id -> format
    activeJobs,        \* running counter (processingCount in part_000)
    nextId,            \* ids handed out so far + 1
    runner,            \* per job: position of runDownload and of its process,
                       \* minutes left until the process is timed out
    files,             \* the download directory: {id, ext, age: now - mtime}
    streams,           \* open read streams of /api/download, per job
    timers,            \* pending 5 s deletion timers, per job
    nextCleanup,       \* minutes until the cleanup interval fires
    nextPurge,         \* minutes until part_000's purge interval fires
    resp,              \* the last HTTP response written
    sse                \* open /api/progress streams: job, position, last event

vars == <<variant, downloadProgress, requestCounts, queue, job, activeJobs,
          nextId, runner, files, streams, timers, nextCleanup, nextPurge, resp,
          sse>>

NoResp == [op |-> "none", code |-> 0]
Streams == 1..MaxStreams
NoStream == [id |-> 0, pc |-> "none", last |-> "none"]

Init ==
    /\ variant \in Variants
    /\ downloadProgress = [j \in JobIds |-> NoRec]
    /\ requestCounts = [c \in Clients |-> NoEntry]
    /\ queue = <<>>
    /\ job = [j \in JobIds |-> "none"]
    /\ activeJobs = 0
    /\ nextId = 1
    /\ runner = [j \in JobIds |-> NoRunner]
    /\ files = {}
    /\ streams = [j \in JobIds |-> 0]
    /\ timers = [j \in JobIds |-> 0]
    /\ nextCleanup = CLEANUP_INTERVAL
    /\ nextPurge = PURGE_INTERVAL
    /\ resp = NoResp
    /\ sse = [k \in Streams |-> NoStream]

\* ------------------------------------------------------------ rate limiter
\* maxRequests (server.js) / RATE_LIMIT (part_000)
RateLimit(v) == IF v = "server" THEN 10 ELSE 5

\* A faulty limit test that lets one request too many through.
overLimitOffByOne(e, v) == e.count > RateLimit(v)

\* data.count >= maxRequests (server.js) / data.count >= RATE_LIMIT (part_000)
overLimit(e, v) == e.count >= RateLimit(v)

\* A faulty limiter that counts the requests it rejects as well.
rateLimiterCountsRejected(rc, v, ip) ==
    IF rc[ip] = NoEntry \/ rc[ip].ttl < 0
    THEN [ok |-> TRUE,
          rc |-> [rc EXCEPT ![ip] = [count |-> 1, ttl |-> RATE_WINDOW]]]
    ELSE [ok |-> ~overLimit(rc[ip], v),
          rc |-> [rc EXCEPT ![ip].count = @ + 1]]

\* rateLimiter(req, res, next): whether next() is called, and the map after.
\* now > data.resetTime is ttl < 0.
rateLimiter(rc, v, ip) ==
    IF rc[ip] = NoEntry
    THEN [ok |-> TRUE,
          rc |-> [rc EXCEPT ![ip] = [count |-> 1, ttl |-> RATE_WINDOW]]]
    ELSE IF rc[ip].ttl < 0
    THEN [ok |-> TRUE,
          rc |-> [rc EXCEPT ![ip] = [count |-> 1, ttl |-> RATE_WINDOW]]]
    ELSE IF overLimit(rc[ip], v)
    THEN [ok |-> FALSE, rc |-> rc]
    ELSE [ok |-> TRUE, rc |-> [rc EXCEPT ![ip].count = @ + 1]]

\* The slack after resetTime before an entry is purged: 60000 in server.js,
\* RATE_WINDOW in part_000.
PurgeSlack(v) == IF v = "server" THEN 1 ELSE RATE_WINDOW

\* A faulty sweep that removes an entry in the last minute of its window.
purgeCountsEarly(rc, v) ==
    [c \in Clients |->
        IF rc[c] # NoEntry /\ 1 > rc[c].ttl
        THEN NoEntry ELSE rc[c]]

\* The sweep of the rate-limit map: now > data.resetTime + slack.
purgeCounts(rc, v) ==
    [c \in Clients |->
        IF rc[c] # NoEntry /\ 0 > rc[c].ttl + PurgeSlack(v)
        THEN NoEntry ELSE rc[c]]

\* ------------------------------------------------------------ job records
\* A faulty update that stores a record when there is none.
updateOrCreate(dp, id, progress, status) ==
    IF dp[id] = NoRec
    THEN [dp EXCEPT ![id] = [status |-> status, progress |-> progress,
                             age |-> 0, filePath |-> NoPath,
                             filename |-> "none"]]
    ELSE [dp EXCEPT ![id].progress = progress, ![id].status = status]

\* The closure update(progress, message, status) of the runner: a no-op on
\* an absent record.  The message is not modelled.
update(dp, id, progress, status) ==
    IF dp[id] = NoRec THEN dp
    ELSE [dp EXCEPT ![id].progress = progress, ![id].status = status]

\* The record POST /api/convert stores; timestamp: Date.now() is age 0.
newRecord ==
    [status |-> "queued", progress |-> 0, age |-> 0,
     filePath |-> NoPath, filename |-> "none"]

\* ------------------------------------------------------------------ queue
\* A faulty shift that takes the newest job, as queue.pop() would.
shiftNewest(q) == [job |-> q[Len(q)], rest |-> SubSeq(q, 1, Len(q) - 1)]

\* queue.shift(): the job taken and the queue left.
shift(q) == [job |-> Head(q), rest |-> Tail(q)]

\* A faulty start that leaves the record as it is.
startDownloadNoUpdate(S, id) ==
    [S EXCEPT !.rn = [S.rn EXCEPT ![id].pc = "title"]]

\* The synchronous start of runDownload(job), up to its first await:
\* update(5, 'Starting...') and the title command is running.
startDownload(S, id) ==
    [S EXCEPT !.dp = update(S.dp, id, 5, "processing"),
              !.rn = [S.rn EXCEPT ![id].pc = "title"]]

\* A faulty slot test that is off by one.
hasSlotOffByOne(a) == a <= MAX_CONCURRENT

\* activeJobs < MAX_CONCURRENT, the slot test of the dispatch loop.
hasSlot(a) == a < MAX_CONCURRENT

\* while (activeJobs < MAX_CONCURRENT && queue.length > 0) { ... }
\* S holds the counter a, the queue q, the record store dp and the runners rn.
RECURSIVE processQueue(_)
processQueue(S) ==
    IF hasSlot(S.a) /\ Len(S.q) > 0
    THEN processQueue(startDownload([S EXCEPT !.a = S.a + 1,
                                              !.q = shift(S.q).rest],
                                    shift(S.q).job))
    ELSE S

\* addToQueue(job): queue.push(job); processQueue()
addToQueue(S, id) == processQueue([S EXCEPT !.q = Append(S.q, id)])

Cur == [a |-> activeJobs, q |-> queue, dp |-> downloadProgress, rn |-> runner]

\* The four variables a dispatch pass writes.
Install(S) ==
    /\ activeJobs' = S.a
    /\ queue' = S.q
    /\ downloadProgress' = S.dp
    /\ runner' = S.rn

\* --------------------------------------------------------- POST /api/convert
Urls == {"none", "other", "youtube"}
BodyFormats == Formats \cup {"none"}

\* A faulty body test that forgets the format.
badBodyUrlOnly(url, format) == url = "none"

\* !url || !format (server.js); !url, then !format (part_000).  Nothing else
\* about the url is tested.
badBody(url, format) == url = "none" \/ format = "none"

\* A faulty ceiling test that is off by one.
queueFullOffByOne(q) == Len(q) > QUEUE_CEILING

\* queue.length >= 20 (downloadQueue.length >= 20 in part_000)
queueFull(q) == Len(q) >= QUEUE_CEILING

\* Whether the request gets past the rate limiter, the 400 checks and the
\* 503 check, so that a job is created.
Admitted(ip, url, format) ==
    /\ rateLimiter(requestCounts, variant, ip).ok
    /\ ~badBody(url, format)
    /\ ~queueFull(queue)

\* app.post('/api/convert', rateLimiter, handler)
Convert(ip, url, format) ==
    LET rl == rateLimiter(requestCounts, variant, ip) IN
    /\ requestCounts' = rl.rc
    /\ IF ~rl.ok
       THEN /\ resp' = [op |-> "convert", code |-> 429]
            /\ UNCHANGED <<downloadProgress, queue, job, activeJobs, nextId, runner>>
       ELSE IF badBody(url, format)
       THEN /\ resp' = [op |-> "convert", code |-> 400]
            /\ UNCHANGED <<downloadProgress, queue, job, activeJobs, nextId, runner>>
       ELSE IF queueFull(queue)
       THEN /\ resp' = [op |-> "convert", code |-> 503]
            /\ UNCHANGED <<downloadProgress, queue, job, activeJobs, nextId, runner>>
       ELSE /\ Install(addToQueue(
                    [Cur EXCEPT !.dp = [downloadProgress EXCEPT ![nextId] = newRecord]],
                    nextId))
            /\ job' = [job EXCEPT ![nextId] = format]
            /\ nextId' = nextId + 1
            /\ resp' = [op |-> "convert", code |-> 200]
    /\ UNCHANGED <<variant, sse, files, streams, timers, nextCleanup, nextPurge>>

\* ----------------------------------------------------------- GET /api/info
\* app.get('/api/info', rateLimiter, handler): the rate limiter, the two 400
\* checks, then the metadata command, whose outcome (200 or 500) is the
\* tool's.
Info(ip, url, toolOk) ==
    LET rl == rateLimiter(requestCounts, variant, ip) IN
    /\ requestCounts' = rl.rc
    /\ resp' = [op |-> "info",
                code |-> IF ~rl.ok THEN 429
                         ELSE IF url # "youtube" THEN 400
                         ELSE IF toolOk THEN 200 ELSE 500]
    /\ UNCHANGED <<variant, sse, downloadProgress, queue, job, activeJobs, nextId,
                   runner, files, streams, timers, nextCleanup, nextPurge>>

\* ---------------------------------------------------------- download directory
\* const ext = format === 'mp3' ? 'mp3' : 'mp4'
extOf(format) == IF format = "mp3" THEN "mp3" ELSE "mp4"

\* The expected output path: `${id}.${ext}` (server.js),
\* `${timestamp}_${downloadId}.${ext}` (part_000).
outputFile(id) == [id |-> id, ext |-> extOf(job[id])]

\* A faulty match that takes every file of the directory for the job's.
nameMatchesAny(f, id) == TRUE

\* f.startsWith(id) (server.js), f.includes(`${timestamp}_${downloadId}`) and
\* f.includes(downloadId) (part_000): ids are distinct and none is part of
\* another, so a name matches exactly the id it was built from.
nameMatches(f, id) == f.id = id

\* fs.existsSync(path)
exists(fl, path) == \E f \in fl : f.id = path.id /\ f.ext = path.ext

\* A faulty deleteFile that empties the directory when the file is gone.
deleteFileOrAll(fl, path) ==
    IF \E f \in fl : f.id = path.id /\ f.ext = path.ext
    THEN {f \in fl : ~(f.id = path.id /\ f.ext = path.ext)}
    ELSE {}

\* deleteFile(path) / fs.unlinkSync(path): nothing happens when it is gone.
deleteFile(fl, path) == {f \in fl : ~(f.id = path.id /\ f.ext = path.ext)}

\* The paths the search for the output may end with: the expected path when
\* it exists, else any file of the directory whose name matches the id
\* (files.find returns the first in directory order, which is not fixed),
\* else the expected path although it is absent.
finalPaths(fl, id) ==
    IF exists(fl, outputFile(id)) THEN {outputFile(id)}
    ELSE IF \E f \in fl : nameMatches(f, id)
    THEN {[id |-> f.id, ext |-> f.ext] : f \in {g \in fl : nameMatches(g, id)}}
    ELSE {outputFile(id)}

\* A faulty cleanup that deletes nothing.
cleanupNothing(fl, id) == fl

\* The catch block's cleanup: every file whose name matches the id is deleted.
cleanupPartial(fl, id) == {f \in fl : ~nameMatches(f, id)}

\* ------------------------------------------------------------------ runner
\* The progress a percentage marker is recorded as: 10 + pct * 0.85, pct
\* rounded first in server.js, the result capped at 95 in part_000.  The
\* markers of the model are multiples of 20, so both are whole numbers.
mapProgress(v, pct) ==
    LET p == 10 + (pct * 85) \div 100 IN
    IF v = "server" THEN p ELSE IF p < 95 THEN p ELSE 95

\* The timeout the download process is started with: exec(cmd, {timeout:
\* 600000}) in server.js, spawn('yt-dlp', args) without one in part_000.
execTimeout(v) == IF v = "server" THEN EXEC_TIMEOUT ELSE NoTimeout

\* runDownload after the title command has ended either way (a failure only
\* leaves the default title): update(10, 'Downloading...') and the download
\* process is started.
TitleDone(id) ==
    /\ runner[id].pc = "title"
    /\ downloadProgress' = update(downloadProgress, id, 10, "processing")
    /\ runner' = [runner EXCEPT ![id].pc = "proc", ![id].proc = "running",
                                ![id].left = execTimeout(variant)]
    /\ UNCHANGED <<variant, sse, requestCounts, queue, job, activeJobs, nextId,
                   files, streams, timers, nextCleanup, nextPurge, resp>>

\* A faulty stream that still delivers a line after the process has closed.
ToolDataLate(id, pct) ==
    /\ runner[id].pc \in {"proc", "done"}
    /\ downloadProgress' =
           update(downloadProgress, id, mapProgress(variant, pct), "processing")
    /\ UNCHANGED <<variant, sse, requestCounts, queue, job, activeJobs, nextId,
                   runner, files, streams, timers, nextCleanup, nextPurge, resp>>

\* proc.stdout.on('data') / proc.stderr.on('data') with a percentage marker.
\* The streams deliver nothing once 'close' has been emitted, nor when the
\* process could not be spawned.
ToolData(id, pct) ==
    /\ runner[id].pc = "proc"
    /\ runner[id].proc = "running"
    /\ downloadProgress' =
           update(downloadProgress, id, mapProgress(variant, pct), "processing")
    /\ UNCHANGED <<variant, sse, requestCounts, queue, job, activeJobs, nextId,
                   runner, files, streams, timers, nextCleanup, nextPurge, resp>>

\* The external tool writes (or rewrites) a file named after the job.
ToolWrite(id, ext) ==
    /\ runner[id].pc = "proc"
    /\ runner[id].proc = "running"
    /\ ext \in {extOf(job[id]), "webm", "part"}
    /\ files' = deleteFile(files, [id |-> id, ext |-> ext])
                    \cup {[id |-> id, ext |-> ext, age |-> 0]}
    /\ UNCHANGED <<variant, sse, downloadProgress, requestCounts, queue, job,
                   activeJobs, nextId, runner, streams, timers, nextCleanup,
                   nextPurge, resp>>

\* A faulty end of the runner that does not test whether the file exists.
settleUnchecked(dp, fl, id, ok, finalPath) ==
    IF ok
    THEN [dp |-> IF dp[id] = NoRec THEN dp
                 ELSE [update(dp, id, 100, "completed") EXCEPT
                          ![id].filePath = finalPath,
                          ![id].filename = extOf(job[id])],
          fl |-> fl]
    ELSE [dp |-> update(dp, id, 0, "error"), fl |-> cleanupPartial(fl, id)]

\* The rest of runDownload once the download promise has settled: resolved
\* (ok) it looks for the output, ending 'completed' with finalPath or
\* throwing 'File not created'; rejected or thrown it ends in the catch
\* block.  The record store and the directory after.
settle(dp, fl, id, ok, finalPath) ==
    IF ok /\ exists(fl, finalPath)
    THEN [dp |-> IF dp[id] = NoRec THEN dp
                 ELSE [update(dp, id, 100, "completed") EXCEPT
                          ![id].filePath = finalPath,
                          ![id].filename = extOf(job[id])],
          fl |-> fl]
    ELSE [dp |-> update(dp, id, 0, "error"), fl |-> cleanupPartial(fl, id)]

\* A faulty handler that gives the slot back and does not dispatch.
releaseNoDispatch(S) == [S EXCEPT !.a = S.a - 1]

\* A faulty handler that forgets to give the slot back.
releaseNoDecrement(S) == processQueue(S)

\* runDownload(job).finally(() => { activeJobs--; processQueue(); })
\* (part_000: .then(...) does the same; processDownload never rejects).
release(S) == processQueue([S EXCEPT !.a = S.a - 1])

\* The runner of id returns with the download promise settled as ok.
Finish(id, ok, finalPath, procAfter) ==
    LET r == settle(downloadProgress, files, id, ok, finalPath) IN
    /\ files' = r.fl
    /\ Install(release(
           [Cur EXCEPT !.dp = r.dp,
                       !.rn = [runner EXCEPT ![id].pc = "done",
                                             ![id].proc = procAfter,
                                             ![id].left = NoTimeout,
                                             ![id].finalPath =
                                                 IF ok /\ exists(files, finalPath)
                                                 THEN finalPath ELSE NoPath]]))
    /\ UNCHANGED <<variant, sse, requestCounts, job, nextId, streams, timers,
                   nextCleanup, nextPurge, resp>>

\* proc.on('close', code): code 0 resolves, any other code rejects.
ProcClose(id, code, finalPath) ==
    /\ runner[id].pc = "proc"
    /\ runner[id].proc = "running"
    /\ finalPath \in finalPaths(files, id)
    /\ Finish(id, code = 0, finalPath, "closed")

\* proc.on('error', reject): the process could not be spawned.
ProcError(id) ==
    /\ runner[id].pc = "proc"
    /\ runner[id].proc = "running"
    /\ Finish(id, FALSE, outputFile(id), "errored")

\* The 'close' that follows an 'error': the promise is settled already, so
\* resolve() or reject() changes nothing.
ProcLateClose(id) ==
    /\ runner[id].proc = "errored"
    /\ runner' = [runner EXCEPT ![id].proc = "closed"]
    /\ UNCHANGED <<variant, sse, downloadProgress, requestCounts, queue, job,
                   activeJobs, nextId, files, streams, timers, nextCleanup,
                   nextPurge, resp>>

\* ----------------------------------------------------------------- janitor
\* A faulty record sweep that spares the jobs that have not finished.
sweepFinishedRecords(dp) ==
    [j \in JobIds |->
        IF /\ dp[j] # NoRec
           /\ dp[j].age > RECORD_MAX_AGE
           /\ dp[j].status \in {"completed", "error"}
        THEN NoRec ELSE dp[j]]

\* The record sweep: every record older than the threshold goes.
sweepRecords(dp) ==
    [j \in JobIds |->
        IF dp[j] # NoRec /\ dp[j].age > RECORD_MAX_AGE
        THEN NoRec ELSE dp[j]]

\* The directory sweep: every file older than the threshold goes.
sweepFiles(fl) == {f \in fl : ~(f.age > FILE_MAX_AGE)}

\* setInterval(() => { ... }, 120000): the directory, the record store and,
\* in server.js, the rate-limit map.
Cleanup ==
    /\ nextCleanup = 0
    /\ files' = sweepFiles(files)
    /\ downloadProgress' = sweepRecords(downloadProgress)
    /\ requestCounts' = IF variant = "server"
                        THEN purgeCounts(requestCounts, variant)
                        ELSE requestCounts
    /\ nextCleanup' = CLEANUP_INTERVAL
    /\ UNCHANGED <<variant, sse, queue, job, activeJobs, nextId, runner, streams,
                   timers, nextPurge, resp>>

\* part_000's setInterval(() => { ... }, 60000) over the rate-limit map.
Purge ==
    /\ variant = "part000"
    /\ nextPurge = 0
    /\ requestCounts' = purgeCounts(requestCounts, variant)
    /\ nextPurge' = PURGE_INTERVAL
    /\ UNCHANGED <<variant, sse, downloadProgress, queue, job, activeJobs, nextId,
                   runner, files, streams, timers, nextCleanup, resp>>

\* A minute passes, the runners being rn after it: every record and file is
\* a minute older, every window a minute nearer its end.  An interval that
\* is due fires first.
Elapse(rn) ==
    /\ nextCleanup > 0
    /\ variant = "part000" => nextPurge > 0
    /\ nextCleanup' = nextCleanup - 1
    /\ nextPurge' = IF variant = "part000" THEN nextPurge - 1 ELSE nextPurge
    /\ downloadProgress' =
           [j \in JobIds |->
               IF downloadProgress[j] = NoRec THEN NoRec
               ELSE [downloadProgress[j] EXCEPT !.age = @ + 1]]
    /\ files' = {[f EXCEPT !.age = @ + 1] : f \in files}
    /\ requestCounts' =
           [c \in Clients |->
               IF requestCounts[c] = NoEntry THEN NoEntry
               ELSE [requestCounts[c] EXCEPT !.ttl = @ - 1]]
    /\ runner' = rn
    /\ UNCHANGED <<variant, sse, queue, job, activeJobs, nextId, streams,
                   timers, resp>>

\* A minute passes for a tool that exits before its timeout is due (a kill
\* by the timeout is a 'close' with a code other than 0, which the process
\* actions deliver at any moment).
Tick == Elapse(runner)

\* A minute passes for a tool that does not exit by itself: the timeout of
\* every running process is a minute nearer, one that is due firing first.
HungTick ==
    /\ \A j \in JobIds : runner[j].proc = "running" => runner[j].left # 0
    /\ Elapse([j \in JobIds |->
                  IF runner[j].proc = "running" /\ runner[j].left > 0
                  THEN [runner[j] EXCEPT !.left = @ - 1]
                  ELSE runner[j]])

\* exec's timeout fires: the process is killed with SIGTERM and 'close' is
\* emitted with code null, which rejects the download promise.
ExecTimeout(id) ==
    /\ runner[id].pc = "proc"
    /\ runner[id].proc = "running"
    /\ runner[id].left = 0
    /\ Finish(id, FALSE, outputFile(id), "closed")

\* ------------------------------------------------------ GET /api/download/:id
\* A faulty test that does not look at the directory.
downloadableUnchecked(v, dp, fl, id) ==
    /\ dp[id] # NoRec
    /\ IF v = "server" THEN dp[id].filePath # NoPath
                       ELSE dp[id].status = "completed"

\* The handler's test before it streams: server.js tests filePath, part_000
\* tests status.
downloadable(v, dp, fl, id) ==
    /\ dp[id] # NoRec
    /\ IF v = "server" THEN dp[id].filePath # NoPath
                       ELSE dp[id].status = "completed"
    /\ exists(fl, dp[id].filePath)

Download(id) ==
    /\ IF downloadable(variant, downloadProgress, files, id)
       THEN /\ resp' = [op |-> "download", code |-> 200]
            /\ streams' = [streams EXCEPT ![id] = @ + 1]
       ELSE /\ resp' = [op |-> "download", code |-> 404]
            /\ UNCHANGED streams
    /\ UNCHANGED <<variant, sse, downloadProgress, requestCounts, queue, job,
                   activeJobs, nextId, runner, files, timers, nextCleanup, nextPurge>>

\* The read stream ends having read the whole file: 'end', then 'close'.
\* Either variant sets its 5 s timer.
StreamEnd(id) ==
    /\ streams[id] > 0
    /\ streams' = [streams EXCEPT ![id] = @ - 1]
    /\ timers' = [timers EXCEPT ![id] = @ + 1]
    /\ UNCHANGED <<variant, sse, downloadProgress, requestCounts, queue, job,
                   activeJobs, nextId, runner, files, nextCleanup, nextPurge, resp>>

\* The client goes away before the file is read: the response closes and
\* pipe() unpipes the read stream, which never emits 'end'.  pipe() does not
\* destroy the stream, so whether it ever emits 'close' (closes) is not the
\* handler's doing.  server.js listens to 'close', part_000 to 'end'.
StreamAbort(id, closes) ==
    /\ streams[id] > 0
    /\ streams' = [streams EXCEPT ![id] = @ - 1]
    /\ timers' = IF variant = "server" /\ closes
                 THEN [timers EXCEPT ![id] = @ + 1] ELSE timers
    /\ UNCHANGED <<variant, sse, downloadProgress, requestCounts, queue, job,
                   activeJobs, nextId, runner, files, nextCleanup, nextPurge, resp>>

\* setTimeout(() => { deleteFile(data.filePath); downloadProgress.delete(id) }, 5000)
GraceTimer(id) ==
    /\ timers[id] > 0
    /\ timers' = [timers EXCEPT ![id] = @ - 1]
    /\ files' = deleteFile(files, runner[id].finalPath)
    /\ downloadProgress' = [downloadProgress EXCEPT ![id] = NoRec]
    /\ UNCHANGED <<variant, sse, requestCounts, queue, job, activeJobs, nextId,
                   runner, streams, nextCleanup, nextPurge, resp>>

\* ------------------------------------------------------ GET /api/progress/:id
\* What send() writes: the record's status, or not_found.
snapshot(dp, id) == IF dp[id] = NoRec THEN "not_found" ELSE dp[id].status

\* The events after which send() stops the stream.
lastEvent(ev) == ev \in {"completed", "error", "not_found"}

\* Everything but the progress streams.
serverState == <<variant, downloadProgress, requestCounts, queue, job,
                 activeJobs, nextId, runner, files, streams, timers,
                 nextCleanup, nextPurge, resp>>

\* How the first send() leaves the stream when it has to stop it.  server.js
\* has set the interval before it calls send(), so clearInterval(interval)
\* and res.end() run.  part_000 calls send() before the line
\* const interval = setInterval(...): clearInterval(interval) reads interval
\* in its temporal dead zone and throws a ReferenceError out of the handler,
\* after the event has been written.
firstStop(v) == IF v = "server" THEN "ended" ELSE "raised"

\* How a later send() leaves the stream when it has to stop it: server.js
\* ends the response; part_000 ends it at once for not_found and 500 ms
\* later for a terminal status.
laterStop(v, ev) ==
    IF v = "server" \/ ev = "not_found" THEN "ended" ELSE "ending"

\* The handler of GET /api/progress/:id runs: the first send().
ProgressOpen(k, id) ==
    LET ev == snapshot(downloadProgress, id) IN
    /\ sse[k].pc \in {"none", "ended", "raised", "closed"}
    /\ sse' = [sse EXCEPT ![k] =
                  [id |-> id, last |-> ev,
                   pc |-> IF lastEvent(ev) THEN firstStop(variant) ELSE "open"]]
    /\ UNCHANGED serverState

\* setInterval(send, 500) fires.
ProgressTick(k) ==
    LET ev == snapshot(downloadProgress, sse[k].id) IN
    /\ sse[k].pc = "open"
    /\ sse' = [sse EXCEPT ![k].last = ev,
                          ![k].pc = IF lastEvent(ev) THEN laterStop(variant, ev)
                                    ELSE "open"]
    /\ UNCHANGED serverState

\* part_000's setTimeout(() => res.end(), 500) fires.
ProgressEndTimer(k) ==
    /\ sse[k].pc = "ending"
    /\ sse' = [sse EXCEPT ![k].pc = "ended"]
    /\ UNCHANGED serverState

\* A faulty disconnect that also drops the job's record.
ProgressDisconnectCancels(k) ==
    /\ sse[k].pc \in {"open", "ending"}
    /\ sse' = [sse EXCEPT ![k].pc = "closed"]
    /\ downloadProgress' = [downloadProgress EXCEPT ![sse[k].id] = NoRec]
    /\ UNCHANGED <<variant, requestCounts, queue, job, activeJobs, nextId,
                   runner, files, streams, timers, nextCleanup, nextPurge, resp>>

\* req.on('close', () => clearInterval(interval)): the client goes away.
ProgressDisconnect(k) ==
    /\ sse[k].pc \in {"open", "ending"}
    /\ sse' = [sse EXCEPT ![k].pc = "closed"]
    /\ UNCHANGED serverState

\* ---------------------------------------------------------- specifications
\* Ids handed out so far.
Started == 1..(nextId - 1)

\* The client sends at most MaxWindowReqs requests in one window.
InBudget(ip) ==
    \/ requestCounts[ip] = NoEntry
    \/ requestCounts[ip].ttl < 0
    \/ requestCounts[ip].count < MaxWindowReqs

\* Spec: the queue and the runners of a burst of requests of one client, no
\* minute passing.  The tool writes its output under the expected name or
\* not at all and exits with either code.
Next ==
    \/ \E url \in Urls, format \in BodyFormats :
          /\ InBudget(1)
          /\ Admitted(1, url, format) => nextId <= MaxJobs
          /\ Convert(1, url, format)
    \/ \E id \in Started : TitleDone(id)
    \/ \E id \in Started :
          /\ \A f \in files : f.id # id
          /\ ToolWrite(id, extOf(job[id]))
    \/ \E id \in Started, code \in {0, 1} :
          ProcClose(id, code, outputFile(id))

Spec == Init /\ [][Next]_vars

\* QueueSpec: the queue and the runners with the clock and the janitor.  The
\* tool leaves its output under the expected name or nothing, one artifact
\* being in the directory at a time.
QueueNext ==
    \/ /\ InBudget(1)
       /\ Admitted(1, "youtube", "mp4") => nextId <= MaxQueueJobs
       /\ Convert(1, "youtube", "mp4")
    \/ \E id \in Started : TitleDone(id)
    \/ \E id \in Started :
          /\ files = {}
          /\ ToolWrite(id, extOf(job[id]))
    \/ \E id \in Started, code \in {0, 1} :
          ProcClose(id, code, outputFile(id))
    \/ Cleanup
    \/ Purge
    \/ Tick

QueueSpec == Init /\ [][QueueNext]_vars

\* SatSpec: enough requests to fill the queue.  A client sends while its
\* window has room and the next client takes over when it has none; the
\* tool writes nothing, so every job that ends ends in error.
Exhausted(ip) ==
    /\ requestCounts[ip] # NoEntry
    /\ requestCounts[ip].count >= RateLimit(variant)

SatNext ==
    \/ \E ip \in Clients :
          /\ \A c \in Clients : c < ip => Exhausted(c)
          /\ Admitted(ip, "youtube", "mp4") => nextId <= MaxSatJobs
          /\ Convert(ip, "youtube", "mp4")
    \/ \E id \in Started : TitleDone(id)
    \/ \E id \in Started :
          ProcClose(id, 1, outputFile(id))

SatSpec == Init /\ [][SatNext]_vars

\* The percentages the tool prints in the life-cycle specification: one on
\* the way and one beyond 100, which the pattern (\d+\.?\d*)% also matches.
Markers == {40, 120}

\* LifeSpec: one job from the request to the deletion of its record, with
\* the clock, the janitor and the download path.  The tool prints markers,
\* leaves one file under the expected name, another extension or as a
\* partial download, exits with either code or fails to start.
LifeNext ==
    \/ \E format \in Formats :
          /\ Admitted(1, "youtube", format) => nextId <= MaxLifeJobs
          /\ Convert(1, "youtube", format)
    \/ \E id \in Started : TitleDone(id)
    \/ \E id \in Started, pct \in Markers : ToolData(id, pct)
    \/ \E id \in Started, ext \in Exts :
          /\ \A f \in files : f.id # id
          /\ ToolWrite(id, ext)
    \/ \E id \in Started, code \in {0, 1}, ext \in Exts :
          ProcClose(id, code, [id |-> id, ext |-> ext])
    \/ \E id \in Started : ProcError(id)
    \/ \E id \in Started : ProcLateClose(id)
    \/ \E id \in 1..nextId :
          /\ downloadable(variant, downloadProgress, files, id)
                 => streams[id] + timers[id] < MaxLifeDl
          /\ Download(id)
    \/ \E id \in Started : StreamEnd(id)
    \/ \E id \in Started, closes \in BOOLEAN : StreamAbort(id, closes)
    \/ \E id \in Started : GraceTimer(id)
    \/ Cleanup
    \/ Purge
    \/ Tick

LifeSpec == Init /\ [][LifeNext]_vars

\* ArtifactSpec: two jobs with the clock, the janitor and the download
\* path.  The tool leaves its output under the expected name or nothing,
\* and the client asks only for downloads that are served.
ArtifactNext ==
    \/ /\ InBudget(1)
       /\ Admitted(1, "youtube", "mp4") => nextId <= MaxArtifactJobs
       /\ Convert(1, "youtube", "mp4")
    \/ \E id \in Started : TitleDone(id)
    \/ \E id \in Started :
          /\ \A f \in files : f.id # id
          /\ ToolWrite(id, extOf(job[id]))
    \/ \E id \in Started, code \in {0, 1} :
          ProcClose(id, code, outputFile(id))
    \/ \E id \in Started :
          /\ downloadable(variant, downloadProgress, files, id)
          /\ streams[id] + timers[id] < MaxDl
          /\ Download(id)
    \/ \E id \in Started : StreamEnd(id)
    \/ \E id \in Started, closes \in BOOLEAN : StreamAbort(id, closes)
    \/ \E id \in Started : GraceTimer(id)
    \/ Cleanup
    \/ Purge
    \/ Tick

ArtifactSpec == Init /\ [][ArtifactNext]_vars

\* ProgressSpec: progress streams over a burst of jobs, no minute passing.
\* The tool prints markers, leaves its output under the expected name or
\* nothing and exits with either code; completed jobs are downloaded and
\* deleted by the grace timer; streams are opened for ids in use, ids whose
\* record is gone and an id never handed out.
ProgressNext ==
    \/ /\ nextId <= MaxProgressJobs
       /\ Convert(1, "youtube", "mp4")
    \/ \E id \in Started : TitleDone(id)
    \/ \E id \in Started : ToolData(id, 40)
    \/ \E id \in Started :
          /\ \A f \in files : f.id # id
          /\ ToolWrite(id, extOf(job[id]))
    \/ \E id \in Started, code \in {0, 1} :
          ProcClose(id, code, outputFile(id))
    \/ \E id \in Started :
          /\ downloadable(variant, downloadProgress, files, id)
          /\ streams[id] + timers[id] < MaxDl
          /\ Download(id)
    \/ \E id \in Started : StreamEnd(id)
    \/ \E id \in Started : GraceTimer(id)
    \/ \E k \in Streams, id \in 1..nextId : ProgressOpen(k, id)
    \/ \E k \in Streams : ProgressTick(k)
    \/ \E k \in Streams : ProgressEndTimer(k)
    \/ \E k \in Streams : ProgressDisconnect(k)

ProgressSpec == Init /\ [][ProgressNext]_vars

\* ProgressFairSpec: ProgressSpec with a tool that eventually exits: the
\* title command and the download process of a started job end.
RunnerStep ==
    \/ \E id \in Started : TitleDone(id)
    \/ \E id \in Started, code \in {0, 1} : ProcClose(id, code, outputFile(id))

ProgressFairSpec == ProgressSpec /\ WF_vars(RunnerStep)

\* RateSpec: the rate limiter under any number of requests of one client,
\* with the clock and the sweeps.  Jobs that are admitted stay where the
\* dispatch pass leaves them.
RateNext ==
    \/ \E url \in Urls, toolOk \in BOOLEAN : Info(1, url, toolOk)
    \/ \E url \in Urls, format \in {"mp4", "none"} :
          /\ Admitted(1, url, format) => nextId <= MaxRateJobs
          /\ Convert(1, url, format)
    \/ Cleanup
    \/ Purge
    \/ Tick

RateSpec == Init /\ [][RateNext]_vars

\* TimeoutSpec: a tool whose download process never exits by itself, with
\* the clock and the janitor.  The title command ends (it has a timeout in
\* both variants); the download process ends only when exec's timeout
\* kills it.
TimeoutNext ==
    \/ /\ nextId <= MaxHungJobs
       /\ Convert(1, "youtube", "mp4")
    \/ \E id \in Started : TitleDone(id)
    \/ \E id \in Started : ExecTimeout(id)
    \/ Cleanup
    \/ Purge
    \/ HungTick

TimeoutSpec == Init /\ [][TimeoutNext]_vars

\* TimeoutFairSpec: TimeoutSpec where time passes, the intervals and the
\* timeouts that are due fire and the title command ends.
TimeoutFairSpec ==
    /\ TimeoutSpec
    /\ WF_vars(HungTick)
    /\ WF_vars(Cleanup)
    /\ WF_vars(Purge)
    /\ WF_vars(\E id \in JobIds : TitleDone(id))
    /\ WF_vars(\E id \in JobIds : ExecTimeout(id))

\* The percentages the tool prints in the marker specification: a download
\* from 0% to 100% in steps, and one beyond 100, which the pattern
\* (\d+\.?\d*)% matches as well.  The tool prints them in any order (a
\* second stream of the same job starts again at 0%).
BandMarkers == {0, 20, 40, 60, 80, 100, 120}

\* MarkerSpec: the progress of two jobs under every sequence of markers, no
\* minute passing.  The tool leaves its output under the expected name or
\* nothing and exits with either code.
MarkerNext ==
    \/ \E format \in Formats :
          /\ nextId <= MaxMarkerJobs
          /\ Convert(1, "youtube", format)
    \/ \E id \in Started : TitleDone(id)
    \/ \E id \in Started, pct \in BandMarkers : ToolData(id, pct)
    \/ \E id \in Started :
          /\ \A f \in files : f.id # id
          /\ ToolWrite(id, extOf(job[id]))
    \/ \E id \in Started, code \in {0, 1} :
          ProcClose(id, code, outputFile(id))

MarkerSpec == Init /\ [][MarkerNext]_vars

\* ------------------------------------------------------------------ claims
\* Jobs whose runner is between its start and its return.
Executing == {j \in JobIds : runner[j].pc \in {"title", "proc"}}

\* Jobs whose record shows 'processing'.
Processing ==
    {j \in JobIds : /\ downloadProgress[j] # NoRec
                    /\ downloadProgress[j].status = "processing"}

\* Jobs admitted whose runner has not returned.
Unfinished == {j \in Started : runner[j].pc # "done"}

Terminal == {"completed", "error"}

\* C1: whatever submissions, completions, failures and janitor ticks have
\* happened, at most MAX_CONCURRENT jobs are being executed, at most
\* MAX_CONCURRENT records show 'processing', and the running counter is
\* within MAX_CONCURRENT.
C1_ConcurrencyBound ==
    /\ Cardinality(Executing) <= MAX_CONCURRENT
    /\ Cardinality(Processing) <= MAX_CONCURRENT
    /\ activeJobs <= MAX_CONCURRENT

\* Both slots are taken and a job waits, the janitor having swept the record
\* of one of the two jobs that run.
C1_Witness ==
    /\ Cardinality(Executing) = MAX_CONCURRENT
    /\ Len(queue) > 0
    /\ \E j \in Executing : downloadProgress[j] = NoRec

\* C2: ids are handed out in submission order.  A job that has been started
\* never has an earlier job still waiting, the pending queue is in
\* submission order, and it holds only jobs that have not been started.
C2_FifoDispatch ==
    /\ \A a, b \in Started :
          a < b /\ runner[b].pc # "none" => runner[a].pc # "none"
    /\ \A i, k \in 1..Len(queue) : i < k => queue[i] < queue[k]
    /\ \A i \in 1..Len(queue) : runner[queue[i]].pc = "none"

\* The third job has been taken from the queue by a slot that the first job
\* freed, the second still runs and the fourth still waits.
C2_Witness ==
    /\ runner[1].pc = "done"
    /\ runner[2].pc \in {"title", "proc"}
    /\ runner[3].pc \in {"title", "proc"}
    /\ queue = <<4>>

\* The moves of the status of record j that one step may make: none, from no
\* record to 'queued' or 'processing' (admission, dispatched at once or
\* not), from 'queued' to 'processing', from 'processing' to 'completed' or
\* 'error', and the deletion of the record.
StatusStep(j) ==
    LET s == downloadProgress[j].status
        t == downloadProgress'[j].status IN
    \/ s = t
    \/ s = "none" /\ t \in {"queued", "processing"}
    \/ s = "queued" /\ t \in {"processing", "none"}
    \/ s = "processing" /\ t \in Terminal \cup {"none"}
    \/ s \in Terminal /\ t = "none"

\* C3: in every step the status of every record moves only along queued ->
\* processing -> (completed | error) or the record is deleted; a terminal
\* status is never replaced by another status, whatever event comes later.
C3_OneTerminalTransition == [][\A j \in JobIds : StatusStep(j)]_vars

\* A failed job whose process emitted 'error' and then 'close', after a
\* janitor tick and a refused download, still shows 'error'.
C3_Witness ==
    /\ downloadProgress[1] # NoRec
    /\ downloadProgress[1].status = "error"
    /\ downloadProgress[1].age >= CLEANUP_INTERVAL
    /\ runner[1].proc = "closed"
    /\ resp = [op |-> "download", code |-> 404]

\* C4 as the claim states it, at the moment the runner returns: the record
\* of the job is there and shows 'completed' or 'error'.
C4_TerminalWhenDone ==
    [][\A j \in JobIds :
          runner[j].pc # "done" /\ runner'[j].pc = "done"
              => /\ downloadProgress'[j] # NoRec
                 /\ downloadProgress'[j].status \in Terminal]_vars

\* C5 as the claim states it: a record whose filePath is set names a file of
\* the directory, and a file of the directory has its record.
C5_DeletedTogether ==
    /\ \A j \in JobIds :
          downloadProgress[j] # NoRec /\ downloadProgress[j].filePath # NoPath
              => exists(files, downloadProgress[j].filePath)
    /\ \A j \in JobIds :
          runner[j].pc = "done" /\ exists(files, runner[j].finalPath)
              => downloadProgress[j] # NoRec

\* The artifact of job j is in the directory before the step and not after.
ArtifactRemoved(j) ==
    /\ downloadProgress[j] # NoRec
    /\ downloadProgress[j].status = "completed"
    /\ exists(files, downloadProgress[j].filePath)
    /\ ~exists(files', downloadProgress[j].filePath)

\* The step is a janitor tick and the file at path is older than the
\* janitor's threshold.
JanitorRemoves(path) ==
    /\ nextCleanup = 0
    /\ nextCleanup' = CLEANUP_INTERVAL
    /\ \E f \in files : f.id = path.id /\ f.ext = path.ext /\ f.age > FILE_MAX_AGE

\* The step is the deletion that follows a download of job j.
PostStreamDeletion(j) == timers[j] > 0 /\ timers'[j] = timers[j] - 1

\* C6: a job becomes 'completed' with its artifact in the directory, and the
\* artifact of a completed job leaves the directory only in a janitor tick
\* that finds it older than the file-age threshold or in the deletion that
\* follows its own download; no other step, such as another job's runner or
\* failure cleanup, removes it.
C6_NoOrphanedArtifact ==
    [][\A j \in JobIds :
          /\ (downloadProgress[j].status # "completed"
                  /\ downloadProgress'[j].status = "completed")
                 => exists(files', downloadProgress'[j].filePath)
          /\ ArtifactRemoved(j)
                 => \/ JanitorRemoves(downloadProgress[j].filePath)
                    \/ PostStreamDeletion(j)]_vars

\* The first job is completed and its artifact, written a minute ago or
\* more, is still there after the second job, submitted this minute, has
\* failed and cleaned up.
C6_Witness ==
    /\ downloadProgress[1] # NoRec
    /\ downloadProgress[1].status = "completed"
    /\ \E f \in files : f.id = 1 /\ f.age >= 1
    /\ downloadProgress[2] # NoRec
    /\ downloadProgress[2].status = "error"
    /\ downloadProgress[2].age = 0

\* The state a refused request leaves alone.
JobState == <<downloadProgress, queue, job, activeJobs, nextId, runner>>

\* The queue holds at most 20 jobs and at most MAX_CONCURRENT + 20 admitted
\* jobs are unfinished.
WithinCeiling ==
    Len(queue) <= 20 /\ Cardinality(Unfinished) <= MAX_CONCURRENT + 20

\* C7: the pending queue never holds more than 20 jobs, at most
\* MAX_CONCURRENT + 20 admitted jobs are unfinished, before and after every
\* step, and a convert request
\* that passes the rate limiter while the queue holds 20 jobs is answered
\* 503 and creates no record and no queue entry.
C7_QueueSaturation ==
    [][/\ WithinCeiling /\ WithinCeiling'
       /\ \A ip \in Clients :
             (/\ Len(queue) >= 20
              /\ rateLimiter(requestCounts, variant, ip).ok
              /\ Convert(ip, "youtube", "mp4"))
                 => /\ resp' = [op |-> "convert", code |-> 503]
                    /\ UNCHANGED JobState]_vars

\* A request has been answered 503 with 20 jobs waiting and both slots taken.
C7_Witness ==
    /\ resp = [op |-> "convert", code |-> 503]
    /\ Len(queue) = 20
    /\ Cardinality(Unfinished) = MAX_CONCURRENT + 20

\* What a request of client ip does to the client's window, and whether it
\* is answered 429.
RateStep(ip) ==
    LET e == requestCounts[ip]
        e2 == requestCounts'[ip]
        N == IF variant = "server" THEN 10 ELSE 5 IN
    IF e = NoEntry \/ e.ttl < 0
    THEN resp'.code # 429 /\ e2 = [count |-> 1, ttl |-> RATE_WINDOW]
    ELSE IF e.count < N
    THEN resp'.code # 429 /\ e2 = [e EXCEPT !.count = e.count + 1]
    ELSE resp'.code = 429 /\ e2 = e

\* The count of the client's window is at most N.
WithinLimit == requestCounts[1].count <= IF variant = "server" THEN 10 ELSE 5

\* C8: a request of a client with no window, or whose window has elapsed, is
\* allowed and starts a window with count 1; inside a window a request is
\* allowed and counted while fewer than N have been counted, and rejected
\* with 429 once N have been (N = 10 in server.js, 5 in part_000); so the
\* count of a window never exceeds N.
C8_RateLimiterWindow ==
    [][/\ WithinLimit /\ WithinLimit'
       /\ \A url \in Urls, toolOk \in BOOLEAN :
             Info(1, url, toolOk) => RateStep(1)
       /\ \A url \in Urls, format \in BodyFormats :
             Convert(1, url, format) => RateStep(1)]_vars

\* The (N+1)th request of a window has been rejected.
C8_Witness ==
    /\ resp.code = 429
    /\ requestCounts[1].count = RateLimit(variant)
    /\ requestCounts[1].ttl >= 0

\* C9 as the claim states it: a convert request that passes the rate limiter
\* with a missing url, a missing format or an unsupported url is answered
\* 400 and leaves the record store, the queue and the running count alone.
C9_InputErrorsCreateNoJob ==
    [][\A url \in Urls, format \in BodyFormats :
          (/\ url \in {"none", "other"} \/ format = "none"
           /\ rateLimiter(requestCounts, variant, 1).ok
           /\ Convert(1, url, format))
              => /\ resp' = [op |-> "convert", code |-> 400]
                 /\ UNCHANGED JobState]_vars

\* C9 amended: a convert request that passes the rate limiter with a missing
\* url or a missing format is answered 400 and leaves the record store, the
\* queue and the running count alone; one with an unsupported url and a
\* format is admitted like any other: unless the queue is full, it is
\* answered 200 with a new record.
C9_MissingFieldsCreateNoJob ==
    [][\A url \in Urls, format \in BodyFormats :
          (/\ rateLimiter(requestCounts, variant, 1).ok
           /\ Convert(1, url, format))
              => IF url = "none" \/ format = "none"
                 THEN /\ resp' = [op |-> "convert", code |-> 400]
                      /\ UNCHANGED JobState
                 ELSE Len(queue) < 20
                      => /\ resp' = [op |-> "convert", code |-> 200]
                         /\ downloadProgress[nextId] = NoRec
                         /\ downloadProgress'[nextId] # NoRec
                         /\ nextId' = nextId + 1]_vars

\* A request with a missing field has been answered 400 while jobs run and
\* wait.
C9_Witness ==
    /\ resp = [op |-> "convert", code |-> 400]
    /\ activeJobs = MAX_CONCURRENT
    /\ Len(queue) > 0

\* The record of id exists, shows 'completed' and names a file that exists.
Servable(id) ==
    /\ downloadProgress[id] # NoRec
    /\ downloadProgress[id].status = "completed"
    /\ exists(files, downloadProgress[id].filePath)

\* C10: a download request is answered 200 with a stream opened exactly when
\* the record exists, shows 'completed' and its file exists; otherwise it is
\* answered 404 and the record store and the directory are left alone.
C10_DownloadGating ==
    [][\A id \in JobIds :
          Download(id)
              => IF Servable(id)
                 THEN /\ resp' = [op |-> "download", code |-> 200]
                      /\ streams'[id] = streams[id] + 1
                 ELSE /\ resp' = [op |-> "download", code |-> 404]
                      /\ UNCHANGED <<downloadProgress, files, streams>>]_vars

\* A download of a completed job whose file the janitor has removed has been
\* answered 404.
C10_Witness ==
    /\ resp = [op |-> "download", code |-> 404]
    /\ downloadProgress[1] # NoRec
    /\ downloadProgress[1].status = "completed"
    /\ ~exists(files, downloadProgress[1].filePath)
    /\ streams[1] = 0
    /\ timers[1] = 0

\* C11 as the claim states it, at the moment the read stream of a download
\* goes away, read to its end or not: the grace timer that deletes the file
\* and the record has been set.
C11_TimerAfterEveryDownload ==
    [][\A j \in JobIds :
          streams'[j] < streams[j] => timers'[j] = timers[j] + 1]_vars

\* C12 as the claim states it: a stream whose last event showed a terminal
\* status or not_found has had its timer cleared and its response ended (or
\* about to end) by the handler, which did not raise, the first send()
\* included; a stream whose last event showed 'queued' or 'processing' still
\* emits unless the client has gone.
C12_ProgressTermination ==
    \A k \in Streams :
        sse[k].pc # "none"
            => /\ sse[k].pc # "raised"
               /\ lastEvent(sse[k].last)
                      => sse[k].pc \in {"ending", "ended", "closed"}
               /\ ~lastEvent(sse[k].last) => sse[k].pc \in {"open", "closed"}

\* The client of stream k goes away in this step.
Disconnects(k) == sse[k].pc \in {"open", "ending"} /\ sse'[k].pc = "closed"

FailsNow(j) ==
    \/ \E ext \in Exts : ProcClose(j, 1, [id |-> j, ext |-> ext])
    \/ ProcError(j)
    \/ /\ \A f \in files : f.id # j
       /\ ProcClose(j, 0, outputFile(j))

\* C14: when the runner of a job returns after a failure, the record, if
\* still present, shows 'error' with progress 0 and no result fields and is
\* not recreated if absent; no file of the job is left in the directory; the
\* job is neither put back in the queue nor started again; and its slot is
\* released.  A runner that has returned stays returned.
C14_FailureOutcome ==
    [][\A j \in JobIds :
          /\ FailsNow(j)
                 => /\ IF downloadProgress[j] = NoRec
                       THEN downloadProgress'[j] = NoRec
                       ELSE /\ downloadProgress'[j].status = "error"
                            /\ downloadProgress'[j].progress = 0
                            /\ downloadProgress'[j].filePath = NoPath
                    /\ \A f \in files' : f.id # j
                    /\ runner'[j].pc = "done"
                    /\ \A i \in 1..Len(queue') : queue'[i] # j
                    /\ activeJobs' = activeJobs - 1 + (Len(queue) - Len(queue'))
          /\ runner[j].pc = "done" => runner'[j].pc = "done"]_vars

\* The process has closed on a failure: the job shows 'error' with progress
\* 0, the directory is empty and no slot is taken.
C14_Witness ==
    /\ downloadProgress[1] # NoRec
    /\ downloadProgress[1].status = "error"
    /\ downloadProgress[1].progress = 0
    /\ runner[1] = [pc |-> "done", proc |-> "closed", finalPath |-> NoPath,
                    left |-> NoTimeout]
    /\ files = {}
    /\ activeJobs = 0

\* In every record the result fields are set exactly when the status is
\* 'completed', and the progress is 100 exactly then.
FieldsMatchStatus ==
    \A j \in JobIds :
        downloadProgress[j] # NoRec
            => LET r == downloadProgress[j] IN
               /\ r.filePath # NoPath <=> r.status = "completed"
               /\ r.filename # "none" <=> r.status = "completed"
               /\ r.status = "completed" <=> r.progress = 100

\* C15: before and after every step, in every record filePath is set exactly when the status is
\* 'completed', and so is filename; the status is 'completed' exactly when
\* the progress is 100; and in the step in which a record becomes
\* 'completed' the file at its filePath exists.
C15_ResultFieldsOnlyOnSuccess ==
    [][/\ FieldsMatchStatus /\ FieldsMatchStatus'
       /\ \A j \in JobIds :
             (/\ downloadProgress[j].status # "completed"
              /\ downloadProgress'[j].status = "completed")
                 => exists(files', downloadProgress'[j].filePath)]_vars

\* A job has completed with a file that the directory search found under
\* another extension than the expected one.
C15_Witness ==
    /\ downloadProgress[1] # NoRec
    /\ downloadProgress[1].status = "completed"
    /\ downloadProgress[1].progress = 100
    /\ downloadProgress[1].filePath.ext = "webm"
    /\ exists(files, downloadProgress[1].filePath)

\* The step is a janitor tick.
JanitorTick == nextCleanup = 0 /\ nextCleanup' = CLEANUP_INTERVAL

\* C16: a janitor tick deletes every record older than 5 minutes whatever
\* its status, leaves every record of 5 minutes or less as it is, creates
\* none, and leaves the pending queue, the running count and the runners
\* unchanged.
C16_JanitorRecordEviction ==
    [][JanitorTick
          => /\ \A j \in JobIds :
                   IF downloadProgress[j] # NoRec /\ downloadProgress[j].age > 5
                   THEN downloadProgress'[j] = NoRec
                   ELSE downloadProgress'[j] = downloadProgress[j]
             /\ UNCHANGED <<queue, activeJobs, runner>>]_vars

\* A janitor tick has deleted the record of a job that still waits in the
\* queue while both slots are taken.
C16_Witness ==
    /\ nextCleanup = CLEANUP_INTERVAL
    /\ Len(queue) > 0
    /\ downloadProgress[Head(queue)] = NoRec
    /\ activeJobs = MAX_CONCURRENT

\* C17: once the record of an admitted job is gone it stays gone, whatever
\* the job's runner does afterwards (the updates at dispatch, after the
\* title command and at the end); a runner that returns without a record
\* gives its slot back, the counter going down by one apart from the jobs
\* dispatched in the same pass; and a runner returns only once.
C17_AbsentRecordNoOp ==
    [][\A j \in Started :
          /\ downloadProgress[j] = NoRec => downloadProgress'[j] = NoRec
          /\ (/\ downloadProgress[j] = NoRec
              /\ runner[j].pc # "done"
              /\ runner'[j].pc = "done")
                 => activeJobs' = activeJobs - 1 + (Len(queue) - Len(queue'))
          /\ runner[j].pc = "done" => runner'[j].pc = "done"]_vars

\* The third job has written its file and returned within this minute, in
\* which no janitor tick fell, and it has no record: the record was deleted
\* while the job waited or ran, and the final update found none.  No slot
\* is taken any more.
C17_Witness ==
    /\ runner[3].pc = "done"
    /\ downloadProgress[3] = NoRec
    /\ nextCleanup = 1
    /\ \E f \in files : f.id = 3 /\ f.age = 0
    /\ activeJobs = 0

\* The paths a deletion may be asked for in the life-cycle specification.
LifePaths == [id : 1..MaxLifeJobs, ext : Exts]

\* On the directory and the record store as they are, deleting a file that
\* is not there changes nothing, deleting twice is deleting once, and a
\* second sweep right after a sweep changes nothing.
DeletionsIdempotent ==
    /\ \A path \in LifePaths :
          /\ ~exists(files, path) => deleteFile(files, path) = files
          /\ deleteFile(deleteFile(files, path), path) = deleteFile(files, path)
    /\ sweepFiles(sweepFiles(files)) = sweepFiles(files)
    /\ sweepRecords(sweepRecords(downloadProgress))
           = sweepRecords(downloadProgress)

\* C18: on every reachable directory and record store, deleting a file that
\* is not there changes nothing, deleting twice is deleting once, and a
\* second sweep right after a sweep changes nothing; and a grace timer that
\* fires deletes the file and the record of its job and nothing else, so
\* one that finds both gone (after the janitor, or after the timer of
\* another download of the same job) changes nothing.
C18_IdempotentCleanup ==
    [][/\ DeletionsIdempotent /\ DeletionsIdempotent'
       /\ \A j \in JobIds :
             timers'[j] < timers[j]
                 => /\ files' = {f \in files :
                                   ~(/\ f.id = runner[j].finalPath.id
                                     /\ f.ext = runner[j].finalPath.ext)}
                    /\ downloadProgress' = [downloadProgress EXCEPT ![j] = NoRec]
                    /\ (/\ downloadProgress[j] = NoRec
                        /\ ~exists(files, runner[j].finalPath))
                           => UNCHANGED <<files, downloadProgress>>]_vars

\* A download of the job was served and its timer is still to fire, while
\* the file and the record are gone already, deleted by the timer of another
\* download of the job or by the janitor.
C18_Witness ==
    /\ timers[1] = 1
    /\ streams[1] = 0
    /\ runner[1].finalPath # NoPath
    /\ ~exists(files, runner[1].finalPath)
    /\ downloadProgress[1] = NoRec

\* How far the runner of a job has come.
Rank(pc) == CASE pc = "none" -> 0 [] pc = "title" -> 1 [] pc = "proc" -> 2
              [] pc = "done" -> 3

\* The positions of the pending queue that hold job j.
Waiting(j) == {i \in 1..Len(queue) : queue[i] = j}

\* The counter counts the jobs started and not finished, and every admitted
\* job is either in the queue, once and not started, or started and not in
\* the queue.
SlotsBalanced ==
    /\ activeJobs = Cardinality(Executing)
    /\ activeJobs >= 0
    /\ (\A j \in Started : runner[j].pc = "done") => activeJobs = 0
    /\ \A j \in Started :
          IF runner[j].pc = "none"
          THEN Cardinality(Waiting(j)) = 1
          ELSE Waiting(j) = {}

\* C19: before and after every step the running counter equals the number of jobs started and not
\* finished, so it is never negative and is 0 once every admitted job has
\* finished; every admitted job is either in the pending queue, once and
\* not started, or started and not in the queue; and a runner only moves
\* forward, so a job is started once and finishes once.
C19_SlotAccounting ==
    [][/\ SlotsBalanced /\ SlotsBalanced'
       /\ \A j \in JobIds :
             /\ Rank(runner'[j].pc) >= Rank(runner[j].pc)
             /\ Rank(runner'[j].pc) <= Rank(runner[j].pc) + 1]_vars

\* Four jobs were admitted, two of them through the queue, and all have
\* finished, one of them in error: no slot is taken and nothing waits.
C19_Witness ==
    /\ nextId = 5
    /\ \A j \in 1..4 : runner[j].pc = "done"
    /\ downloadProgress[3].status = "error"
    /\ downloadProgress[4].status = "completed"
    /\ activeJobs = 0
    /\ queue = <<>>

\* C20: in every state, that is after every request and every runner event
\* has been handled, it is not the case that a job waits in the pending
\* queue while the running count is below MAX_CONCURRENT.
C20_WorkConservation == ~(Len(queue) > 0 /\ activeJobs < MAX_CONCURRENT)

\* The first two jobs have finished and the two jobs that waited behind them
\* both run: each was started when a slot came free.
C20_Witness ==
    /\ runner[1].pc = "done"
    /\ runner[2].pc = "done"
    /\ Executing = {3, 4}
    /\ queue = <<>>
    /\ activeJobs = MAX_CONCURRENT

\* Jobs whose download process is running.
Hung == {j \in JobIds : runner[j].pc = "proc" /\ runner[j].proc = "running"}

\* C21: a download process that never exits by itself is terminated by a
\* timeout: its job ends with status 'error', its slot is given back, and
\* the jobs queued behind it are eventually dispatched.
C21_TimeoutReleasesSlot ==
    \A j \in 1..MaxHungJobs :
        /\ (j \in Hung) ~> (/\ runner[j].pc = "done"
                            /\ downloadProgress[j] # NoRec
                            /\ downloadProgress[j].status = "error")
        /\ (\E i \in 1..Len(queue) : queue[i] = j) ~> (runner[j].pc # "none")

\* The record of j is there before and after the step.
Kept(j) == downloadProgress[j] # NoRec /\ downloadProgress'[j] # NoRec

\* C22: the recorded progress of a job never decreases from one update to
\* the next, whatever markers the tool prints, except for the reset to 0
\* when the job fails.
C22_ProgressNonDecreasing ==
    [][\A j \in JobIds :
          Kept(j) =>
              \/ downloadProgress'[j].progress >= downloadProgress[j].progress
              \/ /\ downloadProgress'[j].status = "error"
                 /\ downloadProgress[j].status # "error"
                 /\ downloadProgress'[j].progress = 0]_vars

\* C23: while a job is 'processing' its progress is within 5..95, and the
\* progress of every record is within 0..100, in both variants and for
\* every marker the pattern matches.
C23_ProgressBand ==
    \A j \in JobIds :
        downloadProgress[j] # NoRec =>
            /\ downloadProgress[j].progress >= 0
            /\ downloadProgress[j].progress <= 100
            /\ downloadProgress[j].status = "processing" =>
                   /\ downloadProgress[j].progress >= 5
                   /\ downloadProgress[j].progress <= 95

\* Every entry of the rate-limit map counts at least one request and at most
\* as many as the limit allows.
CountsInRange ==
    \A c \in Clients :
        requestCounts[c] # NoEntry
            => /\ requestCounts[c].count >= 1
               /\ requestCounts[c].count <= RateLimit(variant)

\* C24: a request rejected with 429 leaves the client's count and the end of
\* its window as they were, so the count of every entry stays between 1 and
\* the limit; a convert request rejected with 429 leaves the record store,
\* the queue and the running count as they were.
C24_RejectedNotCounted ==
    [][/\ CountsInRange /\ CountsInRange'
       /\ \A url \in Urls, toolOk \in BOOLEAN :
             (Info(1, url, toolOk) /\ resp'.code = 429)
                 => requestCounts' = requestCounts
       /\ \A url \in Urls, format \in BodyFormats :
             (Convert(1, url, format) /\ resp'.code = 429)
                 => /\ requestCounts' = requestCounts
                    /\ nextId' = nextId
                    /\ UNCHANGED JobState]_vars

\* A convert request has been rejected with 429 after a job was admitted in
\* the same window.
C24_Witness ==
    /\ resp = [op |-> "convert", code |-> 429]
    /\ nextId = 2
    /\ downloadProgress[1] # NoRec
    /\ downloadProgress[1].age = 0

\* C25: the extension of a completed job's filename is the extension of the
\* file at its filePath, also when the file was found by the search of the
\* download directory for the job's id.
C25_FilenameExtensionMatches ==
    \A j \in JobIds :
        (downloadProgress[j] # NoRec /\ downloadProgress[j].status = "completed")
            => downloadProgress[j].filename = downloadProgress[j].filePath.ext

\* Job j is in the pending queue.
InQueue(j) == \E i \in 1..Len(queue) : queue[i] = j

\* A record shows 'queued' exactly when its job is in the pending queue, and
\* no id is in the queue twice.
QueuedMirrorsQueue ==
    /\ \A j \in JobIds :
          downloadProgress[j] # NoRec
              => (downloadProgress[j].status = "queued" <=> InQueue(j))
    /\ \A i, k \in 1..Len(queue) : i # k => queue[i] # queue[k]

\* C26: after every step a job record shows 'queued' if and only if its job
\* is in the pending queue, and every id is in the queue at most once; the
\* step that takes a job from the queue starts its runner and, when the
\* record exists, changes it from 'queued' to 'processing'.
C26_QueuedMirrorsQueue ==
    [][/\ QueuedMirrorsQueue /\ QueuedMirrorsQueue'
       /\ \A j \in JobIds :
             (InQueue(j) /\ ~InQueue(j)')
                 => /\ runner[j].pc = "none"
                    /\ runner'[j].pc = "title"
                    /\ activeJobs' > 0
                    /\ downloadProgress[j] # NoRec
                           => /\ downloadProgress[j].status = "queued"
                              /\ downloadProgress'[j] # NoRec
                              /\ downloadProgress'[j].status = "processing"
                              /\ downloadProgress'[j].progress = 5]_vars

\* The third job waited in the queue with a 'queued' record and has just
\* been dispatched by the return of the first: its record shows
\* 'processing' at progress 5 and the queue is empty.
C26_Witness ==
    /\ runner[1].pc = "done"
    /\ runner[3].pc = "title"
    /\ downloadProgress[3] # NoRec
    /\ downloadProgress[3].status = "processing"
    /\ downloadProgress[3].progress = 5
    /\ queue = <<>>

\* The window of entry e has ended: now > resetTime.
Expired(e) == e # NoEntry /\ e.ttl < 0

\* Entries the limiter does not tell apart: equal, or each absent or expired.
Alike(e, g) ==
    \/ e = g
    \/ /\ e = NoEntry \/ Expired(e)
       /\ g = NoEntry \/ Expired(g)

\* What the entry of the client may be had no purge ever run: the entry it
\* has, or, when it has none, any entry whose window has ended.
Unpurged ==
    {requestCounts[1]} \cup
    IF requestCounts[1] = NoEntry
    THEN {[count |-> k, ttl |-> 0 - t] :
              k \in 1..RateLimit(variant), t \in 1..(CLEANUP_INTERVAL + 2)}
    ELSE {}

\* A request is answered alike, and leaves entries alike, whether the map
\* holds the client's purged entry or not.
PurgeUnobservable ==
    \A g \in Unpurged :
        LET a == rateLimiter(requestCounts, variant, 1)
            b == rateLimiter([requestCounts EXCEPT ![1] = g], variant, 1) IN
        /\ a.ok = b.ok
        /\ Alike(a.rc[1], b.rc[1])

\* C27: an entry leaves the rate-limit map only when its window ended more
\* than 60 seconds (one RATE_WINDOW) earlier, and in every state the next
\* request is allowed or rejected, and leaves the entry, as it would with
\* the entry still in the map: the purge changes no answer.
C27_PurgeTransparent ==
    [][/\ PurgeUnobservable /\ PurgeUnobservable'
       /\ \A c \in Clients :
             (requestCounts[c] # NoEntry /\ requestCounts'[c] = NoEntry)
                 => /\ Cleanup \/ Purge
                    /\ 0 - requestCounts[c].ttl > RATE_WINDOW
       /\ \A c \in Clients :
             (Expired(requestCounts[c]) /\ requestCounts'[c] # NoEntry)
                 => \/ Expired(requestCounts'[c])
                    \/ requestCounts'[c] = [count |-> 1, ttl |-> RATE_WINDOW]]_vars

\* The client was rejected at the limit, its window ended and its entry has
\* been purged since.
C27_Witness ==
    /\ resp.code = 429
    /\ requestCounts[1] = NoEntry
====
